---- MODULE Spec2Model ----
(***************************************************************************)
(* session_log: named logger entries with a console threshold and a file   *)
(* threshold, and sessions that buffer their file lines and render them as *)
(* one report when they are dropped (src/src/session.rs, src/src/logger.rs,*)
(* src/src/context.rs, src/src/loggable.rs, src/src/level.rs).             *)
(*                                                                         *)
(* Text is modelled as a sequence of tokens, one token per piece a format  *)
(* string puts together.  The box glyphs are the tokens TL, BL, V and H;   *)
(* a run of n equal glyphs is one token with count n.  Single separators   *)
(* (" ", " - ") are left out; the run of five spaces of the session        *)
(* markers, which Session::dump searches for, is the token sp5.            *)
(***************************************************************************)
EXTENDS Integers, Sequences, FiniteSets, TLC

VARIABLES
  loggers,    \* LOGGERS: logger name -> Inner, for the names created so far
  ses,        \* the Session values created so far, by creation index
  bufs,       \* bufs[i]: the Vec<String> behind ses[i].msgs
  reports,    \* reports[i]: rslt as Session::dump of ses[i] rendered it, <<>> before
  console,    \* the lines printed with println!, each with the event that printed it
  file,       \* the messages handed to Logger::write_line, in order
  clock,      \* Local::now(), in microseconds
  calls,      \* the log calls made so far (a message's text is its index here)
  panicked,   \* "" or the place where the calling thread panicked or blocked
  ops,        \* the number of operations called so far
  defaults,   \* DEFAULT_WRT_LEVEL, DEFAULT_LOG_LEVEL, DEFAULT_PATH, DEFAULT_PROC
  now,        \* the wall clock of get_time_tuple, in hours
  writable,   \* a writeln! on a log file succeeds
  build,      \* "sync", or "async" for a build with the feature "async"
  FILES,      \* FILES: directory -> the open handle, for the directories that have one
  dest,       \* dest[k]: the file that file[k] was written to, and the hour it was
  queue,      \* the channel behind SENDER: the pairs sent and not yet received
  pc,         \* where the calling thread is inside an operation, <<>> between two
  THREAD,     \* THREAD: "Some" or "None"
  worker,     \* where the thread spawned for SENDER is
  held,       \* held[l]: the thread that holds mutex l across steps, 0 for none
  run         \* run[t]: the operation thread t is in the middle of, and where

\* what no operation on an entry or on a session changes
env == <<defaults, now, writable, build>>

\* what only Logger::write_line and the worker change
io == <<FILES, dest, queue>>

\* the threads of a build with the feature "async"
bg == <<pc, THREAD, worker>>

\* the threads
thr == <<bg, held, run>>

vars == <<loggers, ses, bufs, reports, console, file, clock, calls, panicked, ops,
          defaults, now, writable, build, FILES, dest, queue, pc, THREAD, worker,
          held, run>>

----------------------------------------------------------------------------
(* Bounds of the model *)

MaxSessions == 3
MaxCalls == 2
MaxClock == 1
MaxOps == 7
MaxNow == 25

(* Inputs *)

LoggerNames == {"main"}
RootSessionNames == {"s"}
ChildSessionNames == {"t"}
MessageLevels == {"Info"}
WriteLevelInputs == {"Verbose", "Warning"}
LogLevelInputs == {"Info", "Warning"}
RegistryNames == {"main", "aux"}
Threads == {1, 2}
DirectoryInputs == {"./logs", "logs/a"}
ProcessorInputs == {"default", "reentrant"}
DefaultLevelInputs == {"Verbose", "Error"}
AdvanceInputs == {1, 24}
Builds == {"sync", "async"}

----------------------------------------------------------------------------
(* level.rs *)

Level == <<"Debug", "Verbose", "Info", "Warning", "Critical", "Error", "Fatal">>

LevelRank(l) == CHOOSE i \in 1..Len(Level) : Level[i] = l

\* a <= b on Level
LevelLe(a, b) == LevelRank(a) <= LevelRank(b)

(* logger.rs: the process-wide defaults *)

DEFAULT_PATH == "./logs"
DEFAULT_PROC == "default"
DEFAULT_WRT_LEVEL == "Verbose"
DEFAULT_LOG_LEVEL == "Info"

\* now.hour() and the name get_file_name gives the file of the hour
HoursPerDay == 24

Hour(t) == t % HoursPerDay

get_file_name(t) == <<t \div HoursPerDay, Hour(t)>>

----------------------------------------------------------------------------
(* Text *)

Tok(g, n, s) == [g |-> g, n |-> n, s |-> s]

NoSession == ""

Glyphs == {"TL", "BL", "V", "H"}

\* the number of "━" that follow the corner glyph of a border line
BorderFill == 99

----------------------------------------------------------------------------
(* context.rs *)

\* Context::Log
LogCtx(level, logger, session, message) ==
  [type |-> "Log", level |-> level, logger |-> logger, session |-> session,
   message |-> message, elapsed |-> 0]

\* Context::SessionStart
StartCtx(logger, session) ==
  [type |-> "SessionStart", level |-> "", logger |-> logger, session |-> session,
   message |-> 0, elapsed |-> 0]

\* Context::SessionEnd
EndCtx(logger, session, elapsed) ==
  [type |-> "SessionEnd", level |-> "", logger |-> logger, session |-> session,
   message |-> 0, elapsed |-> elapsed]

\* Context::get_level: only a Log context has a level
HasLevel(ctx) == ctx.type = "Log"

\* Context::get_name: "{logger}" or "{logger}:{session}"
CtxName(ctx) ==
  IF ctx.session = NoSession
  THEN <<Tok("logger", 0, ctx.logger)>>
  ELSE <<Tok("logger", 0, ctx.logger), Tok("session", 0, ctx.session)>>

TimeTok == Tok("time", 0, "")
LocTok == Tok("loc", 0, "")
Sp5Tok == Tok("sp5", 0, "")

\* the default processor: l is the console text, f the file text
processor(ctx) ==
  IF ctx.type = "Log" /\ ctx.session = NoSession THEN
    [l |-> <<TimeTok, Tok("level#", LevelRank(ctx.level), "")>> \o CtxName(ctx)
             \o <<LocTok, Tok("msg", ctx.message, "")>>,
     f |-> <<TimeTok, Tok("level", LevelRank(ctx.level), "")>> \o CtxName(ctx)
             \o <<LocTok, Tok("msg", ctx.message, "")>>]
  ELSE IF ctx.type = "Log" THEN
    [l |-> <<TimeTok, Tok("level#", LevelRank(ctx.level), "")>> \o CtxName(ctx)
             \o <<LocTok, Tok("msg", ctx.message, "")>>,
     f |-> <<TimeTok, Tok("level", LevelRank(ctx.level), ""), LocTok,
             Tok("msg", ctx.message, "")>>]
  ELSE IF ctx.type = "SessionStart" THEN
    [l |-> <<TimeTok, Sp5Tok>> \o CtxName(ctx) \o <<LocTok, Tok("Session start", 0, "")>>,
     f |-> <<TimeTok, Sp5Tok, LocTok, Tok("Session start", 0, "")>>]
  ELSE
    [l |-> <<TimeTok, Sp5Tok>> \o CtxName(ctx)
             \o <<LocTok, Tok("Session end", 0, ""), Tok("Elapsed", ctx.elapsed, "")>>,
     f |-> <<TimeTok, Sp5Tok, LocTok, Tok("Session end", 0, "")>>]

----------------------------------------------------------------------------
(* session.rs: Session::dump, the rendering *)

TopBorder == <<Tok("TL", 1, ""), Tok("H", BorderFill, "")>>
BottomBorder == <<Tok("BL", 1, ""), Tok("H", BorderFill, "")>>
VBar == Tok("V", 1, "")

\* line.starts_with("┏") || line.starts_with("┗")
IsBorder(line) == Len(line) > 0 /\ Head(line).g \in {"TL", "BL"}

\* line.starts_with("┃") || is_border
IsNested(line) == (Len(line) > 0 /\ Head(line).g = "V") \/ IsBorder(line)

\* &line[..line.len()-3]: the line without its last glyph (every glyph is 3 bytes)
TrimGlyph(line) ==
  LET last == line[Len(line)]
  IN  IF last.n > 1
      THEN [line EXCEPT ![Len(line)] = Tok(last.g, last.n - 1, last.s)]
      ELSE SubSeq(line, 1, Len(line) - 1)


\* (a variant: a nested border is not shortened)
Reindent_NoTrim(line) ==
  <<VBar>> \o (IF IsNested(line) THEN <<>> ELSE <<Tok("space", 1, "")>>) \o line

\* format!("┃{space}{line}") of the loop body
Reindent(line) ==
  <<VBar>>
    \o (IF IsNested(line) THEN <<>> ELSE <<Tok("space", 1, "")>>)
    \o (IF IsBorder(line) THEN TrimGlyph(line) ELSE line)


\* (a variant: no blank separator line)
Header_NoBlank(name, elapsed) ==
  << TopBorder,
     <<VBar, Tok("Session:", 0, name)>>,
     <<VBar, Tok("Elapsed:", elapsed, "")>> >>

\* the four header lines of a box
Header(name, elapsed) ==
  << TopBorder,
     <<VBar, Tok("Session:", 0, name)>>,
     <<VBar, Tok("Elapsed:", elapsed, "")>>,
     <<VBar>> >>

\* the bordered report of a session
Box(name, elapsed, msgs) ==
  Header(name, elapsed) \o [i \in 1..Len(msgs) |-> Reindent(msgs[i])] \o <<BottomBorder>>


\* (a variant: the threshold off by one)
TakesBox_AtTwo(ease, msgs) == ~ease \/ Len(msgs) >= 2

\* !self.ease || msgs.len() > 2
TakesBox(ease, msgs) == ~ease \/ Len(msgs) > 2

\* end_line.find("     "): the place of the first run of five spaces, 0 for None
Find5(line) ==
  IF \E i \in 1..Len(line) : line[i].g = "sp5"
  THEN CHOOSE i \in 1..Len(line) :
         line[i].g = "sp5" /\ \A j \in 1..(i - 1) : line[j].g # "sp5"
  ELSE 0

\* a piece of text without its first byte
Chopped(tok) == Tok("chopped", tok.n, tok.g)

\* replace_range(index..index+1, "{root}:{name} - ") and push_str(", Elapsed: ..us"),
\* for a line in which the five spaces were found at i and are followed by text
Splice(line, i, root, name, elapsed) ==
  SubSeq(line, 1, i)
    \o <<Tok("logger", 0, root), Tok("session", 0, name), Chopped(line[i + 1])>>
    \o SubSeq(line, i + 2, Len(line))
    \o <<Tok("Elapsed", elapsed, "")>>

----------------------------------------------------------------------------
(* State *)

\* the calling thread has neither panicked nor blocked, and is between two operations
Running == panicked = "" /\ pc = <<>>

\* an operation is called: the thread has not panicked, the model's budget is not spent
Called == Running /\ ops < MaxOps /\ ops' = ops + 1

Last(seq) == seq[Len(seq)]

\* Inner, as Logger::new makes it
NewInner ==
  [wrt_level |-> defaults.wrt_level, log_level |-> defaults.log_level,
   hour |-> Hour(now), dir |-> defaults.path, processor |-> defaults.proc]

\* the Session value both constructors build
NewSession(name, root, sire) ==
  [died |-> FALSE, pass |-> FALSE, name |-> name, root |-> root, sire |-> sire,
   time |-> clock, ease |-> TRUE, owned |-> TRUE]

\* the locks <Logger as Loggable>::log holds while it calls the processor: the
\* guard of LOGGERS is dropped after the call
LoggerLogLocks == {"LOGGERS"}

\* the locks <Session as Loggable>::log holds while it calls the processor:
\* Logger::get_processor has returned, and its guard is gone
SessionLogLocks == {}

\* what locking LOGGERS does in a thread that holds it already
RelockOutcomes == {"Logger::log deadlocks", "Logger::log panics"}

\* a call of processor proc returns: the default one does; one that calls an
\* operation of the registry does unless its own thread holds LOGGERS
Returns(proc, locks) == proc = "default" \/ "LOGGERS" \notin locks

\* one entry of calls: the level logged, on what (0: the Logger, or a session), the
\* thresholds and the session's flags at that time, the processor called and the
\* locks held during that call
CallRec(on, level, root) ==
  [on |-> on, level |-> level,
   wl |-> loggers[root].wrt_level, ll |-> loggers[root].log_level,
   died |-> IF on = 0 THEN FALSE ELSE ses[on].died,
   pass |-> IF on = 0 THEN FALSE ELSE ses[on].pass,
   proc |-> loggers[root].processor,
   locks |-> IF on = 0 THEN LoggerLogLocks ELSE SessionLogLocks]

\* println!("{l}") by event (ev, k): log call k, or the start or the end of session k
Println(ev, k, l) == console \cup {[ev |-> ev, k |-> k, line |-> l]}

\* writeln!(file, "{message}"): the message is in the file
WriteLine(message) == Append(file, message)

\* the file a handle opened now stands for
Opened(dir) == [dir |-> dir, name |-> get_file_name(now)]

\* Logger::get_file: the handle it returns, and FILES and LOGGERS after it
get_file(name) ==
  LET dir == loggers[name].dir
      open == dir \notin DOMAIN FILES \/ Hour(now) # loggers[name].hour
  IN  [file |-> IF open THEN Opened(dir) ELSE FILES[dir],
       FILES |-> IF open
                 THEN [d \in DOMAIN FILES \cup {dir} |->
                         IF d = dir THEN Opened(dir) ELSE FILES[d]]
                 ELSE FILES,
       loggers |-> IF open THEN [loggers EXCEPT ![name].hour = Hour(now)] ELSE loggers]

\* the directories that create_dir_all of Logger::get_file has made (none of the
\* directories of the entries exists when the process starts)
Created == DOMAIN FILES

\* what a call that writes nothing leaves as it is
NoWrite ==
  [loggers |-> loggers, FILES |-> FILES, file |-> file, dest |-> dest,
   queue |-> queue, panicked |-> panicked]

\* the Receiver is gone: the thread that owned it has returned or unwound
Disconnected == worker \in {"exited", "panicked"}

\* Logger::write_line: get_file, then writeln! (sync) or SENDER.send (async)
write_line(name, message) ==
  LET g == get_file(name)
      got == [NoWrite EXCEPT !.loggers = g.loggers, !.FILES = g.FILES]
  IN  IF build = "sync"
      THEN IF writable
           THEN [got EXCEPT !.file = WriteLine(message),
                            !.dest = Append(dest, [path |-> g.file, at |-> get_file_name(now)])]
           ELSE [got EXCEPT !.panicked = "Logger::write_line"]
      ELSE IF Disconnected
           THEN [got EXCEPT !.panicked = "Logger::write_line"]
           ELSE [got EXCEPT !.queue = Append(queue, [file |-> g.file, message |-> message])]

\* the state after a call that may have written
Wrote(r) ==
  /\ loggers' = r.loggers
  /\ FILES' = r.FILES
  /\ file' = r.file
  /\ dest' = r.dest
  /\ queue' = r.queue
  /\ panicked' = r.panicked

\* the mutexes: the Vec of each session, LOGGERS, FILES, and the open File
MsgsLock(s) == <<"msgs", s>>
LOGGERS_LOCK == <<"LOGGERS", 0>>
FILES_LOCK == <<"FILES", 0>>
FILE_LOCK == <<"File", 0>>

Locks == {MsgsLock(s) : s \in 1..MaxSessions} \cup {LOGGERS_LOCK, FILES_LOCK, FILE_LOCK}

\* a thread that is between two operations
NoFile == [dir |-> "", name |-> <<0, 0>>]
Idle == [op |-> "", at |-> "", s |-> 0, name |-> "", elapsed |-> 0, msg |-> <<>>,
         file |-> NoFile]

Fresh ==
  /\ held = [l \in Locks |-> 0]
  /\ run = [t \in Threads |-> Idle]
  /\ loggers = <<>>
  /\ ses = <<>>
  /\ bufs = <<>>
  /\ reports = <<>>
  /\ console = {}
  /\ file = <<>>
  /\ clock = 0
  /\ calls = <<>>
  /\ panicked = ""
  /\ ops = 0
  /\ defaults = [wrt_level |-> DEFAULT_WRT_LEVEL, log_level |-> DEFAULT_LOG_LEVEL,
                 path |-> DEFAULT_PATH, proc |-> DEFAULT_PROC]
  /\ now = 0
  /\ writable = TRUE
  /\ FILES = <<>>
  /\ dest = <<>>
  /\ queue = <<>>
  /\ pc = <<>>
  /\ THREAD = "None"
  /\ worker = "unspawned"

\* the process starts, built without the feature "async"
Init == Fresh /\ build = "sync"

\* the process starts, built with or without it
InitWriter == Fresh /\ build \in Builds

----------------------------------------------------------------------------
(* logger.rs *)


\* (a variant: insert without the test for None)
Inserted_Overwrite(name) ==
  [n \in DOMAIN loggers \cup {name} |-> IF n = name THEN NewInner ELSE loggers[n]]

\* LOGGERS after "if let None = inner { loggers.insert(..) }"
Inserted(name) ==
  IF name \in DOMAIN loggers THEN loggers
  ELSE [n \in DOMAIN loggers \cup {name} |-> IF n = name THEN NewInner ELSE loggers[n]]

\* Logger::new(name).  With the feature "async" the first call forces SENDER:
\* the thread is spawned, and the call goes on in StoreThread
LoggerNew(name) ==
  /\ Running
  /\ IF build = "async" /\ worker = "unspawned"
     THEN /\ worker' = "poll"
          /\ pc' = <<"Logger::new", name>>
          /\ UNCHANGED <<loggers, THREAD, held, run>>
     ELSE /\ loggers' = Inserted(name)
          /\ UNCHANGED thr
  /\ UNCHANGED <<ses, bufs, reports, console, file, clock, calls, panicked, ops, env, io>>

\* "THREAD = Some(..)" of the initialiser of SENDER, and the rest of Logger::new
StoreThread ==
  /\ panicked = ""
  /\ Len(pc) = 2 /\ pc[1] = "Logger::new"
  /\ THREAD' = "Some"
  /\ loggers' = Inserted(pc[2])
  /\ pc' = <<>>
  /\ UNCHANGED <<ses, bufs, reports, console, file, clock, calls, panicked, ops, env, io,
                 worker, held, run>>

\* Logger::set_default_write_level(level)
SetDefaultWriteLevel(level) ==
  /\ Called
  /\ defaults' = [defaults EXCEPT !.wrt_level = level]
  /\ UNCHANGED <<loggers, ses, bufs, reports, console, file, clock, calls, panicked,
                 now, writable, build, io, thr>>

\* Logger::set_default_log_level(level)
SetDefaultLogLevel(level) ==
  /\ Called
  /\ defaults' = [defaults EXCEPT !.log_level = level]
  /\ UNCHANGED <<loggers, ses, bufs, reports, console, file, clock, calls, panicked,
                 now, writable, build, io, thr>>

\* Logger::set_default_directory(directory)
SetDefaultDirectory(directory) ==
  /\ Called
  /\ defaults' = [defaults EXCEPT !.path = directory]
  /\ UNCHANGED <<loggers, ses, bufs, reports, console, file, clock, calls, panicked,
                 now, writable, build, io, thr>>

\* Logger::set_default_processor(proc)
SetDefaultProcessor(proc) ==
  /\ Called
  /\ defaults' = [defaults EXCEPT !.proc = proc]
  /\ UNCHANGED <<loggers, ses, bufs, reports, console, file, clock, calls, panicked,
                 now, writable, build, io, thr>>

\* Logger::set_directory(directory)
SetDirectory(name, directory) ==
  /\ Called
  /\ name \in DOMAIN loggers
  /\ loggers' = [loggers EXCEPT ![name].dir = directory]
  /\ UNCHANGED <<ses, bufs, reports, console, file, clock, calls, panicked, env, io, thr>>

\* Logger::set_processor(proc)
SetProcessor(name, proc) ==
  /\ Called
  /\ name \in DOMAIN loggers
  /\ loggers' = [loggers EXCEPT ![name].processor = proc]
  /\ UNCHANGED <<ses, bufs, reports, console, file, clock, calls, panicked, env, io, thr>>

\* Logger::set_write_level(level)
SetWriteLevel(name, level) ==
  /\ Called
  /\ name \in DOMAIN loggers
  /\ loggers' = [loggers EXCEPT ![name].wrt_level = level]
  /\ UNCHANGED <<ses, bufs, reports, console, file, clock, calls, panicked, env, io, thr>>

\* Logger::set_log_level(level)
SetLogLevel(name, level) ==
  /\ Called
  /\ name \in DOMAIN loggers
  /\ loggers' = [loggers EXCEPT ![name].log_level = level]
  /\ UNCHANGED <<ses, bufs, reports, console, file, clock, calls, panicked, env, io, thr>>

\* log_level <= *ctx.get_level().unwrap()
LoggerPrints(name, ctx) == LevelLe(loggers[name].log_level, ctx.level)

\* wrt_level <= *ctx.get_level().unwrap()
LoggerWrites(name, ctx) == LevelLe(loggers[name].wrt_level, ctx.level)

\* <Logger as Loggable>::log, called by debug(), info(), ... on a Logger
LoggerLog(name, level) ==
  /\ Called
  /\ name \in DOMAIN loggers
  /\ Len(calls) < MaxCalls
  /\ LET ctx == LogCtx(level, name, NoSession, Len(calls) + 1)
         lf  == processor(ctx)
     IN  IF Returns(loggers[name].processor, LoggerLogLocks)
         THEN /\ console' = IF LoggerPrints(name, ctx)
                            THEN Println("log", Len(calls) + 1, lf.l) ELSE console
              /\ Wrote(IF LoggerWrites(name, ctx) THEN write_line(name, <<lf.f>>) ELSE NoWrite)
         ELSE /\ console' = console
              /\ \E how \in RelockOutcomes :
                   Wrote([NoWrite EXCEPT !.panicked = how])
  /\ calls' = Append(calls, CallRec(0, level, name))
  /\ UNCHANGED <<ses, bufs, reports, clock, env, thr>>

\* Logger::flush (feature "async"): take THREAD and, when there was one, join it
Flush ==
  /\ Called
  /\ build = "async"
  /\ IF THREAD = "Some"
     THEN THREAD' = "None" /\ pc' = <<"Logger::flush">>
     ELSE UNCHANGED <<THREAD, pc>>
  /\ UNCHANGED <<loggers, ses, bufs, reports, console, file, clock, calls, panicked, env,
                 io, worker, held, run>>

\* thread.join().unwrap() of Logger::flush: returns when the thread has ended,
\* panics when the thread ended in a panic
Join ==
  /\ panicked = ""
  /\ pc = <<"Logger::flush">>
  /\ worker \in {"exited", "panicked"}
  /\ pc' = <<>>
  /\ panicked' = IF worker = "panicked" THEN "Logger::flush" ELSE panicked
  /\ UNCHANGED <<loggers, ses, bufs, reports, console, file, clock, calls, ops, env, io,
                 THREAD, worker, held, run>>


\* (a variant: the pair sent last is received first)
try_recv_Last(q) == [item |-> q[Len(q)], rest |-> SubSeq(q, 1, Len(q) - 1)]

\* Ok(..) of rx.try_recv() on a channel that holds q: the pair sent first
try_recv(q) == [item |-> Head(q), rest |-> Tail(q)]

\* the thread of SENDER at rx.try_recv().  The Sender is a static and is never
\* dropped, so the result is Ok or Empty: Ok((file, message)) is written with
\* writeln!(..).unwrap(), Empty leads to the test of THREAD
WorkerPoll ==
  /\ worker = "poll"
  /\ IF queue # <<>>
     THEN /\ queue' = try_recv(queue).rest
          /\ IF writable
             THEN /\ file' = WriteLine(try_recv(queue).item.message)
                  /\ dest' = Append(dest, [path |-> try_recv(queue).item.file,
                                           at |-> get_file_name(now)])
                  /\ worker' = "poll"
             ELSE /\ worker' = "panicked"
                  /\ UNCHANGED <<file, dest>>
     ELSE /\ worker' = "check"
          /\ UNCHANGED <<file, dest, queue>>
  /\ UNCHANGED <<loggers, ses, bufs, reports, console, clock, calls, panicked, ops, env,
                 FILES, pc, THREAD, held, run>>

\* the thread of SENDER after Empty: "if THREAD.is_none() { break; }", else sleep
\* and poll again
WorkerCheck ==
  /\ worker = "check"
  /\ worker' = IF THREAD = "None" THEN "exited" ELSE "poll"
  /\ UNCHANGED <<loggers, ses, bufs, reports, console, file, clock, calls, panicked, ops,
                 env, io, pc, THREAD, held, run>>

\* the wall clock moves on by some hours
Advance(hours) ==
  /\ Called
  /\ now + hours <= MaxNow
  /\ now' = now + hours
  /\ UNCHANGED <<loggers, ses, bufs, reports, console, file, clock, calls, panicked,
                 defaults, writable, build, io, thr>>

\* from now on a writeln! on a log file fails (the disk is full, say)
WriteFails ==
  /\ Called
  /\ writable
  /\ writable' = FALSE
  /\ UNCHANGED <<loggers, ses, bufs, reports, console, file, clock, calls, panicked,
                 defaults, now, build, io, thr>>

----------------------------------------------------------------------------
(* session.rs *)


\* (a variant: no "if self.pass { return; }")
Passes_IgnorePass(s) == ~ses[s].died

\* Session::log gets past "if self.died { return; } if self.pass { return; }"
Passes(s) == ~ses[s].died /\ ~ses[s].pass


\* (a variant: the console threshold compared with < )
SessionPrints_Strict(s, ctx) ==
  /\ Passes(s)
  /\ (HasLevel(ctx) =>
        LevelRank(loggers[ses[s].root].log_level) < LevelRank(ctx.level))

\* Session::log prints l
SessionPrints(s, ctx) ==
  /\ Passes(s)
  /\ (HasLevel(ctx) => LevelLe(loggers[ses[s].root].log_level, ctx.level))


\* (a variant: the buffer gated by the console threshold)
SessionPushes_ByLogLevel(s, ctx) ==
  /\ Passes(s)
  /\ (HasLevel(ctx) => LevelLe(loggers[ses[s].root].log_level, ctx.level))

\* Session::log pushes f
SessionPushes(s, ctx) ==
  /\ Passes(s)
  /\ (HasLevel(ctx) => LevelLe(loggers[ses[s].root].wrt_level, ctx.level))

\* the console and the session's buffer after Session::log(ctx), which is
\* event (ev, k): log call k, or the start or the end of session k
ConsoleAfterLog(s, ctx, ev, k) ==
  IF SessionPrints(s, ctx) THEN Println(ev, k, processor(ctx).l) ELSE console


\* (a variant: f put at the front of the buffer)
BufAfterLog_Prepend(s, ctx) ==
  IF SessionPushes(s, ctx) THEN <<processor(ctx).f>> \o bufs[s] ELSE bufs[s]

BufAfterLog(s, ctx) ==
  IF SessionPushes(s, ctx) THEN Append(bufs[s], processor(ctx).f) ELSE bufs[s]

\* <Logger as Loggable>::session ( Session::new ): a root session, and its
\* SessionStart logged on it
LoggerSession(root, name) ==
  /\ Called
  /\ root \in DOMAIN loggers
  /\ Len(ses) < MaxSessions
  /\ LET ctx == StartCtx(root, name)
     IN  /\ ses' = Append(ses, NewSession(name, root, 0))
         /\ console' = Println("start", Len(ses) + 1, processor(ctx).l)
         /\ bufs' = Append(bufs, <<processor(ctx).f>>)
         /\ reports' = Append(reports, <<>>)
  /\ UNCHANGED <<loggers, file, clock, calls, panicked, env, io, thr>>

\* the session name Session::session gives the child's SessionStart context
ChildStartName(p, name) == ses[p].name

\* <Session as Loggable>::session: a session nested in session p
SessionSession(p, name) ==
  /\ Called
  /\ p \in DOMAIN ses
  /\ ses[p].owned
  /\ Len(ses) < MaxSessions
  /\ IF ses[p].died
     THEN /\ panicked' = "Session::session"
          /\ UNCHANGED <<ses, bufs, reports, console>>
     ELSE LET ctx == StartCtx(ses[p].root, ChildStartName(p, name))
          IN  /\ ses' = Append(ses, NewSession(name, ses[p].root, p))
              /\ console' = Println("start", Len(ses) + 1, processor(ctx).l)
              /\ bufs' = Append(bufs, <<processor(ctx).f>>)
              /\ reports' = Append(reports, <<>>)
              /\ UNCHANGED panicked
  /\ UNCHANGED <<loggers, file, clock, calls, env, io, thr>>

\* <Session as Loggable>::log, called by debug(), info(), ... on session s
SessionLog(s, level) ==
  /\ Called
  /\ s \in DOMAIN ses
  /\ ses[s].owned
  /\ Len(calls) < MaxCalls
  /\ LET ctx == LogCtx(level, ses[s].root, ses[s].name, Len(calls) + 1)
     IN  /\ console' = ConsoleAfterLog(s, ctx, "log", Len(calls) + 1)
         /\ bufs' = [bufs EXCEPT ![s] = BufAfterLog(s, ctx)]
  /\ calls' = Append(calls, CallRec(s, level, ses[s].root))
  /\ UNCHANGED <<loggers, ses, reports, file, clock, panicked, env, io, thr>>

\* Session::enable
Enable(s) ==
  /\ Called
  /\ s \in DOMAIN ses
  /\ ses[s].owned
  /\ ses' = [ses EXCEPT ![s].pass = FALSE]
  /\ UNCHANGED <<loggers, bufs, reports, console, file, clock, calls, panicked, env, io,
                 thr>>

\* Session::disable
Disable(s) ==
  /\ Called
  /\ s \in DOMAIN ses
  /\ ses[s].owned
  /\ ses' = [ses EXCEPT ![s].pass = TRUE]
  /\ UNCHANGED <<loggers, bufs, reports, console, file, clock, calls, panicked, env, io,
                 thr>>

\* Session::set_ease_on_empty
SetEaseOnEmpty(s, ease) ==
  /\ Called
  /\ s \in DOMAIN ses
  /\ ses[s].owned
  /\ ses' = [ses EXCEPT ![s].ease = ease]
  /\ UNCHANGED <<loggers, bufs, reports, console, file, clock, calls, panicked, env, io,
                 thr>>


\* (a variant: no "if self.died { return; }")
DumpTarget_NoGate(s, msgs) ==
  IF TakesBox(ses[s].ease, msgs)
  THEN (IF ses[s].sire # 0 THEN "sire" ELSE "file")
  ELSE IF Len(msgs) = 0 \/ Find5(Last(msgs)) = 0 \/ Find5(Last(msgs)) = Len(Last(msgs))
       THEN "panic"
  ELSE "file"

\* where Session::dump sends what it rendered from msgs:
\* "none" (already died), "sire", "file", or "panic" (an unwrap on None)
DumpTarget(s, msgs) ==
  IF ses[s].died THEN "none"
  ELSE IF TakesBox(ses[s].ease, msgs)
       THEN (IF ses[s].sire # 0 THEN "sire" ELSE "file")
  ELSE IF Len(msgs) = 0 \/ Find5(Last(msgs)) = 0 \/ Find5(Last(msgs)) = Len(Last(msgs))
       THEN "panic"
  ELSE "file"

\* rslt of Session::dump
DumpText(s, msgs, elapsed) ==
  IF TakesBox(ses[s].ease, msgs)
  THEN Box(ses[s].name, elapsed, msgs)
  ELSE <<Splice(Last(msgs), Find5(Last(msgs)), ses[s].root, ses[s].name, elapsed)>>

\* Session::dump(elapsed) on session s whose buffer holds msgs
DumpFrom(s, msgs, elapsed) ==
  LET to == DumpTarget(s, msgs)
  IN  /\ bufs' = IF to = "sire"
                 THEN [bufs EXCEPT ![s] = msgs,
                                   ![ses[s].sire] = @ \o DumpText(s, msgs, elapsed)]
                 ELSE [bufs EXCEPT ![s] = msgs]
      /\ reports' = IF to \in {"sire", "file"}
                    THEN [reports EXCEPT ![s] = DumpText(s, msgs, elapsed)]
                    ELSE reports
      /\ Wrote(IF to = "file" THEN write_line(ses[s].root, DumpText(s, msgs, elapsed))
               ELSE IF to = "panic" THEN [NoWrite EXCEPT !.panicked = "Session::dump"]
               ELSE NoWrite)

\* the level Loggable::fatal logs at
\* (a variant: the lowest level)
FatalLevel_Debug == "Debug"

FatalLevel == "Fatal"

\* Loggable::fatal on session s: Session::log at Level::Fatal, then panic!
SessionFatal(s) ==
  /\ Called
  /\ s \in DOMAIN ses
  /\ ses[s].owned
  /\ Len(calls) < MaxCalls
  /\ LET ctx == LogCtx(FatalLevel, ses[s].root, ses[s].name, Len(calls) + 1)
     IN  /\ console' = ConsoleAfterLog(s, ctx, "log", Len(calls) + 1)
         /\ bufs' = [bufs EXCEPT ![s] = BufAfterLog(s, ctx)]
  /\ calls' = Append(calls, CallRec(s, FatalLevel, ses[s].root))
  /\ panicked' = "Loggable::fatal"
  /\ UNCHANGED <<loggers, ses, reports, file, clock, env, io, thr>>

\* what Logger::log leaves, then panic!
ThenPanic(r) ==
  [r EXCEPT !.panicked = IF r.panicked = "" THEN "Loggable::fatal" ELSE r.panicked]

\* Loggable::fatal on a Logger: Logger::log at Level::Fatal, then panic!
LoggerFatal(name) ==
  /\ Called
  /\ name \in DOMAIN loggers
  /\ Len(calls) < MaxCalls
  /\ LET ctx == LogCtx(FatalLevel, name, NoSession, Len(calls) + 1)
         lf  == processor(ctx)
     IN  IF Returns(loggers[name].processor, LoggerLogLocks)
         THEN /\ console' = IF LoggerPrints(name, ctx)
                            THEN Println("log", Len(calls) + 1, lf.l) ELSE console
              /\ Wrote(ThenPanic(IF LoggerWrites(name, ctx)
                                 THEN write_line(name, <<lf.f>>) ELSE NoWrite))
         ELSE /\ console' = console
              /\ \E how \in RelockOutcomes :
                   Wrote([NoWrite EXCEPT !.panicked = how])
  /\ calls' = Append(calls, CallRec(0, FatalLevel, name))
  /\ UNCHANGED <<ses, bufs, reports, clock, env, thr>>

\* the panic of Loggable::fatal unwinds the stack: a session that is still
\* alive is dropped (a panic in that drop aborts the process)
Unwind(s) ==
  /\ panicked = "Loggable::fatal"
  /\ s \in DOMAIN ses
  /\ ses[s].owned
  /\ LET elapsed == clock - ses[s].time
         ctx == EndCtx(ses[s].root, ses[s].name, elapsed)
     IN  /\ console' = ConsoleAfterLog(s, ctx, "end", s)
         /\ DumpFrom(s, BufAfterLog(s, ctx), elapsed)
  /\ ses' = [ses EXCEPT ![s].died = TRUE, ![s].owned = FALSE]
  /\ UNCHANGED <<clock, calls, ops, env, thr>>

\* Drop for Session: log the SessionEnd, then dump
Drop(s) ==
  /\ Called
  /\ s \in DOMAIN ses
  /\ ses[s].owned
  /\ LET elapsed == clock - ses[s].time
         ctx == EndCtx(ses[s].root, ses[s].name, elapsed)
     IN  /\ console' = ConsoleAfterLog(s, ctx, "end", s)
         /\ DumpFrom(s, BufAfterLog(s, ctx), elapsed)
  /\ ses' = [ses EXCEPT ![s].died = TRUE, ![s].owned = FALSE]
  /\ UNCHANGED <<clock, calls, env, thr>>

\* Session::dump called on its own, by code of the module (it is pub(self)):
\* the session value stays with its owner
Dump(s, elapsed) ==
  /\ Called
  /\ s \in DOMAIN ses
  /\ ses[s].owned
  /\ DumpFrom(s, bufs[s], elapsed)
  /\ ses' = [ses EXCEPT ![s].died = TRUE]
  /\ UNCHANGED <<console, clock, calls, env, thr>>

\* time passes
Tick ==
  /\ Called
  /\ clock < MaxClock
  /\ clock' = clock + 1
  /\ UNCHANGED <<loggers, ses, bufs, reports, console, file, calls, panicked, env, io,
                 thr>>

----------------------------------------------------------------------------
(* The same operations on several threads, one step for each lock taken while
   another is held.  A section that takes one lock, holds nothing else and
   calls nothing that locks is one step, enabled when the lock is free. *)

\* Mutex::lock returns in thread t, and the guards of t are dropped
Free(l) == held[l] = 0
Take(t, l) == [held EXCEPT ![l] = t]
Release(t) == [l \in Locks |-> IF held[l] = t THEN 0 ELSE held[l]]
ReleaseOne(l) == [held EXCEPT ![l] = 0]

\* thread t is at step at of operation op
At(t, op, at) == panicked = "" /\ run[t].op = op /\ run[t].at = at
Goes(t, at) == [run EXCEPT ![t].at = at]

\* Session::log has its message and goes on to "self.msgs.lock().unwrap().push(f)"
LogCall(t, s, level) ==
  /\ Called
  /\ run[t] = Idle
  /\ s \in DOMAIN ses
  /\ ses[s].owned
  /\ Len(calls) < MaxCalls
  /\ Free(LOGGERS_LOCK)
  /\ LET ctx == LogCtx(level, ses[s].root, ses[s].name, Len(calls) + 1)
     IN  /\ console' = ConsoleAfterLog(s, ctx, "log", Len(calls) + 1)
         /\ run' = IF SessionPushes(s, ctx)
                   THEN [run EXCEPT ![t] = [Idle EXCEPT !.op = "Session::log", !.at = "push",
                                                        !.s = s, !.msg = <<processor(ctx).f>>]]
                   ELSE run
  /\ calls' = Append(calls, CallRec(s, level, ses[s].root))
  /\ UNCHANGED <<loggers, ses, bufs, reports, file, clock, panicked, env, io, bg, held>>

\* "self.msgs.lock().unwrap().push(f)" of Session::log
LogPush(t) ==
  /\ At(t, "Session::log", "push")
  /\ Free(MsgsLock(run[t].s))
  /\ bufs' = [bufs EXCEPT ![run[t].s] = @ \o run[t].msg]
  /\ run' = [run EXCEPT ![t] = Idle]
  /\ UNCHANGED <<loggers, ses, reports, console, file, clock, calls, panicked, ops, env,
                 io, bg, held>>

\* Drop for Session begins: the SessionEnd is logged, up to its println!
DropCall(t, s) ==
  /\ Called
  /\ run[t] = Idle
  /\ s \in DOMAIN ses
  /\ ses[s].owned
  /\ \A u \in Threads : run[u].s # s
  /\ Free(LOGGERS_LOCK)
  /\ LET elapsed == clock - ses[s].time
         ctx == EndCtx(ses[s].root, ses[s].name, elapsed)
     IN  /\ console' = ConsoleAfterLog(s, ctx, "end", s)
         /\ run' = [run EXCEPT ![t] =
                      [Idle EXCEPT !.op = "Drop", !.s = s, !.elapsed = elapsed,
                                   !.at = IF SessionPushes(s, ctx) THEN "end" ELSE "dump",
                                   !.msg = <<processor(ctx).f>>]]
  /\ ses' = [ses EXCEPT ![s].owned = FALSE]
  /\ UNCHANGED <<loggers, bufs, reports, file, clock, calls, panicked, env, io, bg, held>>

\* the push of the SessionEnd; Session::dump is next
EndPush(t) ==
  /\ At(t, "Drop", "end")
  /\ Free(MsgsLock(run[t].s))
  /\ bufs' = [bufs EXCEPT ![run[t].s] = @ \o run[t].msg]
  /\ run' = Goes(t, "dump")
  /\ UNCHANGED <<loggers, ses, reports, console, file, clock, calls, panicked, ops, env,
                 io, bg, held>>

\* Session::dump up to the end of its if/else: died is set, the guard of
\* self.msgs is taken and kept, rslt is rendered
DumpLock(t) ==
  /\ At(t, "Drop", "dump")
  /\ LET s  == run[t].s
         to == DumpTarget(s, bufs[s])
     IN  IF to = "none"
         THEN /\ run' = [run EXCEPT ![t] = Idle]
              /\ UNCHANGED <<ses, held, panicked>>
         ELSE /\ Free(MsgsLock(s))
              /\ ses' = [ses EXCEPT ![s].died = TRUE]
              /\ IF to = "panic"
                 THEN /\ panicked' = "Session::dump"
                      /\ run' = [run EXCEPT ![t] = Idle]
                      /\ UNCHANGED held
                 ELSE /\ held' = Take(t, MsgsLock(s))
                      /\ run' = [run EXCEPT ![t].at = IF to = "sire" THEN "sire" ELSE "new",
                                            ![t].name = ses[s].root,
                                            ![t].msg = DumpText(s, bufs[s], run[t].elapsed)]
                      /\ UNCHANGED panicked
  /\ UNCHANGED <<loggers, bufs, reports, console, file, clock, calls, ops, env, io, bg>>

\* "sire.lock().unwrap()" of Session::dump
SireLock(t) ==
  /\ At(t, "Drop", "sire")
  /\ Free(MsgsLock(ses[run[t].s].sire))
  /\ held' = Take(t, MsgsLock(ses[run[t].s].sire))
  /\ run' = Goes(t, "append")
  /\ UNCHANGED <<loggers, ses, bufs, reports, console, file, clock, calls, panicked, ops,
                 env, io, bg>>

\* how many lines of rslt one hold of the guard of sire moves into the parent's Vec
\* (a variant: one line for each hold)
AppendChunk_Line(rslt) == 1

\* Vec::append moves them all
AppendChunk(rslt) == Len(rslt)

\* ".append(&mut rslt); return;" of Session::dump
SireAppend(t) ==
  /\ At(t, "Drop", "append")
  /\ LET s == run[t].s
         p == ses[s].sire
         n == AppendChunk(run[t].msg)
     IN  /\ bufs' = [bufs EXCEPT ![p] = @ \o SubSeq(run[t].msg, 1, n)]
         /\ IF n = Len(run[t].msg)
            THEN /\ reports' = [reports EXCEPT ![s] = DumpText(s, bufs[s], run[t].elapsed)]
                 /\ held' = Release(t)
                 /\ run' = [run EXCEPT ![t] = Idle]
            ELSE /\ held' = ReleaseOne(MsgsLock(p))
                 /\ run' = [run EXCEPT ![t].at = "sire",
                                       ![t].msg = SubSeq(run[t].msg, n + 1, Len(run[t].msg))]
                 /\ UNCHANGED reports
  /\ UNCHANGED <<loggers, ses, console, file, clock, calls, panicked, ops, env, io, bg>>

\* "LOGGERS.lock().unwrap()" of the Logger::new that Session::dump calls
NewLock(t) ==
  /\ At(t, "Drop", "new")
  /\ Free(LOGGERS_LOCK)
  /\ held' = Take(t, LOGGERS_LOCK)
  /\ run' = Goes(t, "inserted")
  /\ UNCHANGED <<loggers, ses, bufs, reports, console, file, clock, calls, panicked, ops,
                 env, io, bg>>

\* that Logger::new returns; Logger::write_line is next
NewReturn(t) ==
  /\ At(t, "Drop", "inserted")
  /\ loggers' = Inserted(run[t].name)
  /\ held' = ReleaseOne(LOGGERS_LOCK)
  /\ run' = Goes(t, "get_file")
  /\ UNCHANGED <<ses, bufs, reports, console, file, clock, calls, panicked, ops, env, io,
                 bg>>

\* Logger::log up to its call of Logger::write_line
LoggerCall(t, name, level) ==
  /\ Called
  /\ run[t] = Idle
  /\ name \in DOMAIN loggers
  /\ loggers[name].processor = "default"
  /\ Len(calls) < MaxCalls
  /\ Free(LOGGERS_LOCK)
  /\ LET ctx == LogCtx(level, name, NoSession, Len(calls) + 1)
         lf  == processor(ctx)
     IN  /\ console' = IF LoggerPrints(name, ctx)
                       THEN Println("log", Len(calls) + 1, lf.l) ELSE console
         /\ run' = IF LoggerWrites(name, ctx)
                   THEN [run EXCEPT ![t] = [Idle EXCEPT !.op = "Logger::log", !.name = name,
                                                        !.at = "get_file", !.msg = <<lf.f>>]]
                   ELSE run
  /\ calls' = Append(calls, CallRec(0, level, name))
  /\ UNCHANGED <<loggers, ses, bufs, reports, file, clock, panicked, env, io, bg, held>>

\* the mutexes Logger::get_file locks, in the order of its first two statements
\* (a variant: FILES first)
GetFileOrder_FilesFirst == <<FILES_LOCK, LOGGERS_LOCK>>

GetFileOrder == <<LOGGERS_LOCK, FILES_LOCK>>

\* thread t is in Logger::write_line, called by Logger::log or by Session::dump
InWriteLine(t, at) ==
  /\ panicked = ""
  /\ run[t].op \in {"Logger::log", "Drop"}
  /\ run[t].at = at

\* the first lock() of Logger::get_file
GetFileLock(t) ==
  /\ InWriteLine(t, "get_file")
  /\ Free(GetFileOrder[1])
  /\ held' = Take(t, GetFileOrder[1])
  /\ run' = Goes(t, "files")
  /\ UNCHANGED <<loggers, ses, bufs, reports, console, file, clock, calls, panicked, ops,
                 env, io, bg>>

\* the second lock() of Logger::get_file
FilesLock(t) ==
  /\ InWriteLine(t, "files")
  /\ Free(GetFileOrder[2])
  /\ held' = Take(t, GetFileOrder[2])
  /\ run' = Goes(t, "opened")
  /\ UNCHANGED <<loggers, ses, bufs, reports, console, file, clock, calls, panicked, ops,
                 env, io, bg>>

\* Logger::get_file returns the handle
GetFileReturn(t) ==
  /\ InWriteLine(t, "opened")
  /\ LET g == get_file(run[t].name)
     IN  /\ loggers' = g.loggers
         /\ FILES' = g.FILES
         /\ run' = [run EXCEPT ![t].at = "write", ![t].file = g.file]
  /\ held' = [held EXCEPT ![LOGGERS_LOCK] = 0, ![FILES_LOCK] = 0]
  /\ UNCHANGED <<ses, bufs, reports, console, file, clock, calls, panicked, ops, env,
                 dest, queue, bg>>

\* "file.lock().unwrap()" of Logger::write_line
FileLock(t) ==
  /\ InWriteLine(t, "write")
  /\ build = "sync"
  /\ Free(FILE_LOCK)
  /\ held' = Take(t, FILE_LOCK)
  /\ run' = Goes(t, "writing")
  /\ UNCHANGED <<loggers, ses, bufs, reports, console, file, clock, calls, panicked, ops,
                 env, io, bg>>

\* the writeln! of Logger::write_line, and the return of the operation
WriteReturn(t) ==
  /\ InWriteLine(t, "writing")
  /\ IF writable
     THEN /\ file' = WriteLine(run[t].msg)
          /\ dest' = Append(dest, [path |-> run[t].file, at |-> get_file_name(now)])
          /\ UNCHANGED panicked
     ELSE /\ panicked' = "Logger::write_line"
          /\ UNCHANGED <<file, dest>>
  /\ reports' = IF run[t].op = "Drop" /\ writable
                THEN [reports EXCEPT ![run[t].s] = run[t].msg] ELSE reports
  /\ held' = Release(t)
  /\ run' = [run EXCEPT ![t] = Idle]
  /\ UNCHANGED <<loggers, ses, bufs, console, clock, calls, ops, env, FILES, queue, bg>>

----------------------------------------------------------------------------

Next ==
  \/ \E name \in LoggerNames : LoggerNew(name)
  \/ \E name \in LoggerNames, level \in WriteLevelInputs : SetWriteLevel(name, level)
  \/ \E name \in LoggerNames, level \in LogLevelInputs : SetLogLevel(name, level)
  \/ \E name \in LoggerNames, level \in MessageLevels : LoggerLog(name, level)
  \/ \E root \in LoggerNames, name \in RootSessionNames : LoggerSession(root, name)
  \/ \E p \in 1..MaxSessions, name \in ChildSessionNames : SessionSession(p, name)
  \/ \E s \in 1..MaxSessions, level \in MessageLevels : SessionLog(s, level)
  \/ \E s \in 1..MaxSessions : Enable(s)
  \/ \E s \in 1..MaxSessions : Disable(s)
  \/ \E s \in 1..MaxSessions, ease \in BOOLEAN : SetEaseOnEmpty(s, ease)
  \/ \E s \in 1..MaxSessions : Drop(s)
  \/ Tick

\* the public operations of the library, called from one thread
Spec == Init /\ [][Next]_vars

\* the same with Session::dump also called directly, as code of the module can
NextForced == Next \/ \E s \in 1..MaxSessions, elapsed \in 0..MaxClock : Dump(s, elapsed)

SpecForced == Init /\ [][NextForced]_vars

\* the registry: entries are made and configured, and the defaults changed
NextRegistry ==
  \/ \E name \in RegistryNames : LoggerNew(name)
  \/ \E level \in DefaultLevelInputs : SetDefaultWriteLevel(level)
  \/ \E level \in DefaultLevelInputs : SetDefaultLogLevel(level)
  \/ \E directory \in DirectoryInputs : SetDefaultDirectory(directory)
  \/ \E proc \in ProcessorInputs : SetDefaultProcessor(proc)
  \/ \E name \in RegistryNames, level \in WriteLevelInputs : SetWriteLevel(name, level)
  \/ \E name \in RegistryNames, level \in LogLevelInputs : SetLogLevel(name, level)
  \/ \E name \in RegistryNames, directory \in DirectoryInputs : SetDirectory(name, directory)
  \/ \E name \in RegistryNames, proc \in ProcessorInputs : SetProcessor(name, proc)

SpecRegistry == Init /\ [][NextRegistry]_vars

\* logging with processors of the user
NextProcessor ==
  \/ \E name \in LoggerNames : LoggerNew(name)
  \/ \E name \in LoggerNames, proc \in ProcessorInputs : SetProcessor(name, proc)
  \/ \E name \in LoggerNames, level \in LogLevelInputs : SetLogLevel(name, level)
  \/ \E name \in LoggerNames, level \in MessageLevels : LoggerLog(name, level)
  \/ \E root \in LoggerNames, name \in RootSessionNames : LoggerSession(root, name)
  \/ \E s \in 1..MaxSessions, level \in MessageLevels : SessionLog(s, level)
  \/ \E s \in 1..MaxSessions : Drop(s)

SpecProcessor == Init /\ [][NextProcessor]_vars

\* entries that write to log files while the hours pass
NextFiles ==
  \/ \E name \in RegistryNames : LoggerNew(name)
  \/ \E name \in RegistryNames, directory \in DirectoryInputs : SetDirectory(name, directory)
  \/ \E name \in RegistryNames, level \in MessageLevels : LoggerLog(name, level)
  \/ \E hours \in AdvanceInputs : Advance(hours)

SpecFiles == Init /\ [][NextFiles]_vars

\* one thread that logs on a Logger, in either build, and the thread of SENDER
NextWriter ==
  \/ \E name \in LoggerNames : LoggerNew(name)
  \/ StoreThread
  \/ \E name \in LoggerNames, level \in MessageLevels : LoggerLog(name, level)
  \/ Flush
  \/ Join
  \/ WorkerPoll
  \/ WorkerCheck
  \/ WriteFails

SpecWriter == InitWriter /\ [][NextWriter]_vars

\* logging that ends in Loggable::fatal, and the unwinding after it
NextFatal ==
  \/ \E name \in LoggerNames : LoggerNew(name)
  \/ \E name \in LoggerNames, level \in WriteLevelInputs : SetWriteLevel(name, level)
  \/ \E root \in LoggerNames, name \in RootSessionNames : LoggerSession(root, name)
  \/ \E p \in 1..MaxSessions, name \in ChildSessionNames : SessionSession(p, name)
  \/ \E s \in 1..MaxSessions, level \in MessageLevels : SessionLog(s, level)
  \/ \E s \in 1..MaxSessions : Enable(s)
  \/ \E s \in 1..MaxSessions : Disable(s)
  \/ \E name \in LoggerNames : LoggerFatal(name)
  \/ \E s \in 1..MaxSessions : SessionFatal(s)
  \/ \E s \in 1..MaxSessions : Unwind(s)

SpecFatal == Init /\ [][NextFatal]_vars

NextThreads ==
  \/ \E name \in LoggerNames : Free(LOGGERS_LOCK) /\ LoggerNew(name)
  \/ \E root \in LoggerNames, name \in RootSessionNames :
       Free(LOGGERS_LOCK) /\ LoggerSession(root, name)
  \/ \E p \in 1..MaxSessions, name \in ChildSessionNames :
       Free(LOGGERS_LOCK) /\ SessionSession(p, name)
  \/ \E t \in Threads, s \in 1..MaxSessions, level \in MessageLevels : LogCall(t, s, level)
  \/ \E t \in Threads : LogPush(t)
  \/ \E t \in Threads, s \in 1..MaxSessions : DropCall(t, s)
  \/ \E t \in Threads : EndPush(t)
  \/ \E t \in Threads : DumpLock(t)
  \/ \E t \in Threads : SireLock(t)
  \/ \E t \in Threads : SireAppend(t)
  \/ \E t \in Threads : NewLock(t)
  \/ \E t \in Threads : NewReturn(t)
  \/ \E t \in Threads, name \in LoggerNames, level \in MessageLevels :
       LoggerCall(t, name, level)
  \/ \E t \in Threads : GetFileLock(t)
  \/ \E t \in Threads : FilesLock(t)
  \/ \E t \in Threads : GetFileReturn(t)
  \/ \E t \in Threads : FileLock(t)
  \/ \E t \in Threads : WriteReturn(t)

\* the operations called from two threads, built without the feature "async"
SpecThreads == Init /\ [][NextThreads]_vars

----------------------------------------------------------------------------
(* What the properties below speak of *)

Sessions == DOMAIN ses

\* line holds the text of log call id
HasMsg(line, id) == \E k \in 1..Len(line) : line[k].g = "msg" /\ line[k].n = id

\* the places in text (a sequence of lines) of the lines holding log call id
MsgLines(text, id) == {k \in 1..Len(text) : HasMsg(text[k], id)}

\* log call id was at or above the write threshold, resp. the console threshold,
\* of its logger when it was made
AtWriteLevel(id) == LevelRank(calls[id].wl) <= LevelRank(calls[id].level)
AtLogLevel(id) == LevelRank(calls[id].ll) <= LevelRank(calls[id].level)

\* log call id was made on session s while s was Active (neither Dead nor Disabled)
ActiveCallOn(id, s) == calls[id].on = s /\ ~calls[id].died /\ ~calls[id].pass

\* session s completes in this step: its dump runs past the died gate
Completes(s) == s \in Sessions /\ ~ses[s].died /\ ses'[s].died

\* this step hands exactly one message to Logger::write_line
OneWrite == Len(file') = Len(file) + 1 /\ SubSeq(file', 1, Len(file)) = file

\* the number of glyphs of a line made of box glyphs only
RECURSIVE Width(_)
Width(line) == IF line = <<>> THEN 0 ELSE Head(line).n + Width(Tail(line))

OnlyGlyphs(line) == \A k \in 1..Len(line) : line[k].g \in Glyphs

\* log call id printed its line
PrintedCall(id) == \E c \in console : c.ev = "log" /\ c.k = id

----------------------------------------------------------------------------
(* C1: when a root session that is enabled is dropped, every message that was
   logged on it while it was Active, at a level at or above the write level
   of that moment, is on exactly one line of the message written to the file
   in that step, and these lines are in the order of the log calls. *)
C1_Step ==
  \A s \in Sessions :
    (Completes(s) /\ ses[s].sire = 0 /\ ~ses[s].pass) =>
      /\ OneWrite
      /\ LET w == file'[Len(file')]
             mine == {id \in DOMAIN calls : ActiveCallOn(id, s) /\ AtWriteLevel(id)}
         IN  /\ \A id \in mine : Cardinality(MsgLines(w, id)) = 1
             /\ \A i, j \in mine :
                  i < j => \A a \in MsgLines(w, i), b \in MsgLines(w, j) : a < b

C1_InOrderOnce == [][C1_Step]_vars

\* a root session that buffered two messages has been dropped and written
C1_Witness ==
  \E s \in Sessions :
    /\ ses[s].sire = 0 /\ ses[s].died /\ ~ses[s].pass
    /\ Cardinality({id \in DOMAIN calls : ActiveCallOn(id, s) /\ AtWriteLevel(id)}) = 2
    /\ \E k \in 1..Len(file) :
         file[k] = reports[s] /\ MsgLines(file[k], 1) # {} /\ MsgLines(file[k], 2) # {}

(* C2: a message logged, on a Logger or on a session, at a level below the
   write level its logger had at that moment is on no line of any message
   written to the file, whatever happened afterwards. *)
C2_BelowWriteLevelNeverWritten ==
  \A id \in DOMAIN calls :
    ~AtWriteLevel(id) => \A k \in 1..Len(file) : MsgLines(file[k], id) = {}

\* a session logged a message below the write level, the write level was then
\* lowered to that of the message or below, and the session's report was written
C2_Witness ==
  \E id \in DOMAIN calls, s \in Sessions :
    /\ ~AtWriteLevel(id) /\ ActiveCallOn(id, s)
    /\ LevelRank(loggers[ses[s].root].wrt_level) <= LevelRank(calls[id].level)
    /\ ses[s].died /\ \E k \in 1..Len(file) : file[k] = reports[s]

(* C3: a log call on a Logger prints its console line iff log_level <= level
   and writes its file line iff write_level <= level; a log call on an Active
   session prints iff log_level <= level and appends its file line to the
   session's buffer iff write_level <= level. *)
C3_Step ==
  (Len(calls') = Len(calls) + 1) =>
    LET id == Len(calls')
        c == calls'[id]
        shown == LevelRank(c.ll) <= LevelRank(c.level)
        kept == LevelRank(c.wl) <= LevelRank(c.level)
        routed == c.on = 0 \/ (~c.died /\ ~c.pass)
    IN  routed =>
          /\ IF shown
             THEN /\ Cardinality(console') = Cardinality(console) + 1
                  /\ console \subseteq console'
                  /\ \E l \in console' \ console :
                       l.ev = "log" /\ l.k = id /\ HasMsg(l.line, id)
             ELSE console' = console
          /\ IF c.on = 0
             THEN /\ bufs' = bufs
                  /\ IF kept
                     THEN OneWrite /\ MsgLines(file'[Len(file')], id) = {1}
                     ELSE file' = file
             ELSE /\ file' = file
                  /\ IF kept
                     THEN /\ Len(bufs'[c.on]) = Len(bufs[c.on]) + 1
                          /\ SubSeq(bufs'[c.on], 1, Len(bufs[c.on])) = bufs[c.on]
                          /\ HasMsg(bufs'[c.on][Len(bufs'[c.on])], id)
                          /\ \A o \in Sessions \ {c.on} : bufs'[o] = bufs[o]
                     ELSE bufs' = bufs

C3_DualRouting == [][C3_Step]_vars

\* two log calls on an Active session: one went to the console only, the other
\* to the buffer only
C3_Witness ==
  \E i, j \in DOMAIN calls, s \in Sessions :
    /\ ActiveCallOn(i, s) /\ ActiveCallOn(j, s)
    /\ PrintedCall(i) /\ MsgLines(bufs[s], i) = {}
    /\ ~PrintedCall(j) /\ MsgLines(bufs[s], j) # {}

(* C4: completion is one-shot.  A session that is Dead stays Dead; a dump or a
   drop of a Dead session writes nothing to the file, appends nothing to any
   buffer, prints nothing and renders no report; a log call on a Dead session
   changes neither the console nor any buffer; a report, once rendered, is
   never rendered again. *)
C4_Step ==
  /\ \A s \in Sessions : ses[s].died => ses'[s].died
  /\ \A s \in Sessions :
       (ses[s].died /\ (Drop(s) \/ \E e \in 0..MaxClock : Dump(s, e))) =>
         file' = file /\ bufs' = bufs /\ reports' = reports /\ console' = console
  /\ (Len(calls') = Len(calls) + 1 /\ calls'[Len(calls')].died) =>
       console' = console /\ bufs' = bufs /\ file' = file
  /\ \A s \in Sessions : reports'[s] # reports[s] => Completes(s) /\ reports[s] = <<>>

C4_OneShot == [][C4_Step]_vars

\* a root session was dumped, then logged on while Dead, then dropped, and its
\* report is in the file exactly once
C4_Witness ==
  \E s \in Sessions, id \in DOMAIN calls :
    /\ calls[id].on = s /\ calls[id].died
    /\ ses[s].sire = 0 /\ ses[s].died /\ ~ses[s].owned
    /\ reports[s] # <<>>
    /\ Cardinality({k \in 1..Len(file) : file[k] = reports[s]}) = 1
    /\ Len(file) = 1

(* C5 (as claimed): when a session that has a parent completes, what it
   rendered is appended to the parent's buffer and nothing is written to the
   file. *)
C5_Step ==
  \A s \in Sessions :
    (Completes(s) /\ ses[s].sire # 0) =>
      /\ file' = file
      /\ Len(bufs'[ses[s].sire]) > Len(bufs[ses[s].sire])
      /\ SubSeq(bufs'[ses[s].sire], 1, Len(bufs[ses[s].sire])) = bufs[ses[s].sire]

C5_ChildReportToParent == [][C5_Step]_vars

\* the last token of a line
LastTok(line) == line[Len(line)]

(* C6: when a root session with ease-on-empty completes and its buffer then
   holds the start marker and the end marker only, that step writes one message
   to the file; it is one line, which names root and session, carries the
   elapsed time of the session and holds no box glyph. *)
C6_Step ==
  \A s \in Sessions :
    ( /\ Completes(s) /\ ses[s].sire = 0 /\ ses[s].ease
      /\ Len(bufs'[s]) = 2
      /\ LastTok(bufs'[s][1]).g = "Session start"
      /\ LastTok(bufs'[s][2]).g = "Session end" ) =>
      /\ OneWrite
      /\ LET w == file'[Len(file')]
         IN  /\ Len(w) = 1
             /\ \E k \in 1..(Len(w[1]) - 1) :
                  /\ w[1][k] = Tok("logger", 0, ses[s].root)
                  /\ w[1][k + 1] = Tok("session", 0, ses[s].name)
             /\ \E k \in 1..Len(w[1]) : w[1][k] = Tok("Elapsed", clock - ses[s].time, "")
             /\ \A k \in 1..Len(w[1]) : w[1][k].g \notin Glyphs

C6_EmptyCollapses == [][C6_Step]_vars

\* an empty root session was dropped one tick after it was made, and its one
\* line is in the file
C6_Witness ==
  \E s \in Sessions :
    /\ ses[s].sire = 0 /\ ses[s].died /\ ses[s].ease /\ Len(bufs[s]) = 2
    /\ Len(reports[s]) = 1 /\ file = <<reports[s]>>
    /\ \E k \in 1..Len(reports[s][1]) : reports[s][1][k] = Tok("Elapsed", 1, "")

\* the log calls whose line is in the buffer of session s after this step
OwnMsgs(s) == {id \in DOMAIN calls : calls[id].on = s /\ MsgLines(bufs'[s], id) # {}}

(* C7 (as claimed): when a root session completes with at least one message
   of a log call in its buffer, that step writes a box: the first line is the
   top border, the last line the bottom border, of equal length. *)
C7_Step ==
  \A s \in Sessions :
    (Completes(s) /\ ses[s].sire = 0 /\ OwnMsgs(s) # {}) =>
      /\ OneWrite
      /\ LET w == file'[Len(file')]
         IN  /\ Head(w[1]).g = "TL" /\ OnlyGlyphs(w[1])
             /\ Head(w[Len(w)]).g = "BL" /\ OnlyGlyphs(w[Len(w)])
             /\ Width(w[1]) = Width(w[Len(w)])

C7_ContentGetsBox == [][C7_Step]_vars

\* session s completes in this step by writing a box, all of whose buffered
\* lines are its markers and the messages of its own log calls, at least one
WritesFlatBox(s) ==
  /\ Completes(s) /\ ses[s].sire = 0 /\ OwnMsgs(s) # {}
  /\ \A k \in 1..Len(bufs'[s]) : ~IsNested(bufs'[s][k])
  /\ OneWrite
  /\ IsBorder(file'[Len(file')][1])

(* C8 (as claimed): the box of an unnested session with message_count >= 1
   messages has 5 + message_count lines. *)
C8_Step_Claimed ==
  \A s \in Sessions :
    WritesFlatBox(s) => Len(file'[Len(file')]) = 5 + Cardinality(OwnMsgs(s))

C8_FivePlusCount == [][C8_Step_Claimed]_vars

(* C8 (amended): the box of an unnested session has 5 + n lines, n the number
   of lines its buffer holds at completion: top border, name line, elapsed
   line, blank line, the n buffered lines, bottom border.  The buffer holds the
   start marker, one line per message and, when the session is enabled at
   completion, the end marker: 7 + message_count lines then, 6 + message_count
   when it is disabled. *)
C8_Step ==
  \A s \in Sessions :
    WritesFlatBox(s) =>
      LET w == file'[Len(file')]
          n == Cardinality(OwnMsgs(s))
      IN  /\ Len(w) = 5 + Len(bufs'[s])
          /\ Len(w) = IF ses[s].pass THEN 6 + n ELSE 7 + n
          /\ Head(w[1]).g = "TL"
          /\ w[2] = <<VBar, Tok("Session:", 0, ses[s].name)>>
          /\ w[3] = <<VBar, Tok("Elapsed:", clock - ses[s].time, "")>>
          /\ w[4] = <<VBar>>
          /\ LastTok(w[5]).g = "Session start"
          /\ \A k \in 1..Len(bufs'[s]) :
               w[4 + k] = <<VBar, Tok("space", 1, "")>> \o bufs'[s][k]
          /\ Head(w[Len(w)]).g = "BL"

C8_LineCount == [][C8_Step]_vars

\* a root session with two messages was dropped while enabled: nine lines
C8_Witness ==
  \E s \in Sessions :
    /\ ses[s].sire = 0 /\ ses[s].died /\ file = <<reports[s]>>
    /\ Len(reports[s]) = 9
    /\ MsgLines(reports[s], 1) = {6} /\ MsgLines(reports[s], 2) = {7}

\* a line of a child's box as it stands in the parent's box
Nested(line) ==
  IF Head(line).g \in {"TL", "BL"}
  THEN <<VBar, Head(line), Tok("H", line[2].n - 1, "")>>
  ELSE <<VBar>> \o line

(* C9: when a session p completes and a child of p has completed before with
   a box, the box of p holds the lines of the child's box, contiguous and in
   order, each behind one more vertical glyph, after the four header lines of
   p and before its bottom border; the child's two border lines, shortened by
   one glyph and so prefixed, are as long as the border lines of p. *)
C9_Step ==
  \A p, c \in Sessions :
    ( /\ Completes(p) /\ ses[c].sire = p /\ ses[c].died
      /\ reports[c] # <<>> /\ IsBorder(reports[c][1]) ) =>
      LET R == reports'[p]
          B == reports[c]
      IN  /\ Len(R) >= 5 + Len(B)
          /\ Head(R[1]).g = "TL" /\ Head(R[Len(R)]).g = "BL"
          /\ \E k \in 4..(Len(R) - 1 - Len(B)) :
               /\ \A i \in 1..Len(B) : R[k + i] = Nested(B[i])
               /\ Width(R[k + 1]) = Width(R[1])
               /\ Width(R[k + Len(B)]) = Width(R[Len(R)])

C9_ChildBoxInParent == [][C9_Step]_vars

\* a root session was dropped after a child of it that had a message
C9_Witness ==
  \E p, c \in Sessions :
    /\ ses[c].sire = p /\ ses[p].sire = 0 /\ ses[p].died /\ ses[c].died
    /\ reports[c] # <<>> /\ IsBorder(reports[c][1]) /\ MsgLines(reports[c], 1) # {}
    /\ file = <<reports[p]>>
    /\ \E k \in 1..Len(reports[p]) : reports[p][k] = Nested(reports[c][1])

\* a border line of a nested box: vertical glyphs, a corner, horizontal glyphs
NestedBorder(line) ==
  /\ OnlyGlyphs(line)
  /\ Head(line).g = "V"
  /\ \E k \in 1..Len(line) : line[k].g \in {"TL", "BL"}

(* C10 (as claimed): in a box written to the file, every border line of every
   nested box, with the vertical glyphs before it, is as long as the border
   lines of the box itself, at any depth of nesting. *)
C10_ConstantBorderWidth ==
  \A k \in 1..Len(file) :
    IsBorder(file[k][1]) =>
      \A i \in 1..Len(file[k]) :
        NestedBorder(file[k][i]) => Width(file[k][i]) = Width(file[k][1])

\* session p and the sessions it descends from
RECURSIVE Lineage(_)
Lineage(p) == IF p = 0 THEN {} ELSE {p} \cup Lineage(ses[p].sire)

(* C11 (as claimed): no step makes a session whose parent is completed, or an
   ancestor of whose parent is completed: session(name) on such a session
   creates no session. *)
C11_Step ==
  (Len(ses') = Len(ses) + 1 /\ ses'[Len(ses')].sire # 0) =>
    \A a \in Lineage(ses'[Len(ses')].sire) : ~ses[a].died

C11_NoChildOfCompleted == [][C11_Step]_vars

(* C12 (as claimed): every message written to a log file is in the file named
   for the hour (year, month, day, hour) in which it was written. *)
C12_WrittenToCurrentBucket ==
  \A k \in DOMAIN dest : dest[k].path.name = dest[k].at

(* C13: Logger::new(name) for a name that has an entry leaves the whole
   registry as it is: no entry is added, and the levels, the directory and the
   processor of every entry stay, whatever the defaults are by then; and no
   step removes an entry. *)
C13_Step ==
  /\ DOMAIN loggers \subseteq DOMAIN loggers'
  /\ \A name \in RegistryNames :
       (name \in DOMAIN loggers /\ LoggerNew(name)) => loggers' = loggers

C13_NewKeepsEntry == [][C13_Step]_vars

\* both names have an entry, and one of them differs in every field from what
\* the defaults, which were changed, would give it now
C13_Witness ==
  /\ DOMAIN loggers = RegistryNames
  /\ defaults.wrt_level # DEFAULT_WRT_LEVEL /\ defaults.log_level # DEFAULT_LOG_LEVEL
  /\ defaults.path # DEFAULT_PATH /\ defaults.proc # DEFAULT_PROC
  /\ \E name \in RegistryNames :
       /\ loggers[name].wrt_level # defaults.wrt_level
       /\ loggers[name].log_level # defaults.log_level
       /\ loggers[name].dir # defaults.path
       /\ loggers[name].processor # defaults.proc

(* C14 (as claimed): no lock is held while a processor runs, in a log call on
   a Logger as in one on a session, and a log call whose processor calls an
   operation of the registry returns. *)
C14_NoLockInProcessor ==
  \A id \in DOMAIN calls :
    calls[id].proc = "reentrant" =>
      calls[id].locks = {} /\ panicked \notin RelockOutcomes

\* Logger::flush returns in this step: at once, or from the join
FlushReturns ==
  \/ Flush /\ pc' = <<>>
  \/ pc = <<"Logger::flush">> /\ pc' = <<>> /\ panicked' = ""

\* the thread of SENDER is in its loop
WorkerRuns == worker \in {"poll", "check"}

(* C15 (as claimed): when flush() returns, nothing that write_line sent is
   still in the queue, and the worker is not running. *)
C15_Step == FlushReturns => (queue' = <<>> /\ ~WorkerRuns')

C15_FlushDrains == [][C15_Step]_vars

(* C16 (as claimed): the worker leaves its loop only when the queue is empty
   and flush() has been called; so it does not end during the start-up of
   SENDER, and not while a pair is in the queue. *)
C16_Step ==
  (WorkerRuns /\ worker' = "exited") => (queue = <<>> /\ pc = <<"Logger::flush">>)

C16_WorkerEndsOnShutdown == [][C16_Step]_vars

\* the log call whose line a message written by a Logger holds
CallOf(message) == CHOOSE id \in DOMAIN calls : MsgLines(message, id) # {}

\* the messages written, followed by those sent and not yet received
Pipeline == file \o [k \in 1..Len(queue) |-> queue[k].message]

(* C17: the messages of the log calls of one thread on a Logger are in the
   file in the order of the calls, in either build: with those still in the
   queue behind them they are in call order, none twice, and a message is
   written only when the messages of all earlier calls are. *)
C17_InCallOrder ==
  /\ \A i, j \in DOMAIN Pipeline : i < j => CallOf(Pipeline[i]) < CallOf(Pipeline[j])
  /\ \A k \in DOMAIN file :
       \A id \in 1..(CallOf(file[k]) - 1) :
         AtWriteLevel(id) => \E i \in 1..(k - 1) : CallOf(file[i]) = id

\* in a build with the feature "async" two messages were in the queue together,
\* and the worker has written both
C17_Witness ==
  /\ build = "async"
  /\ Len(file) = 2 /\ queue = <<>>
  /\ CallOf(file[1]) = 1 /\ CallOf(file[2]) = 2
  /\ worker = "check"

(* C20 (as claimed): when a writeln! on a log file fails, the thread that
   called the logging operation panics in that step, in either build. *)
C20_Step ==
  /\ (WorkerRuns /\ worker' = "panicked") => panicked' # ""
  /\ (build = "sync" /\ ~writable /\ Len(calls') = Len(calls) + 1) => panicked' # ""

C20_WriteFailureSurfaces == [][C20_Step]_vars

(* C18: a log call on a session that is Disabled changes neither the console
   nor any buffer nor the file; a log call on a session that is not Disabled
   (and not Dead), also one that was Disabled before, prints iff log_level <=
   level and is buffered iff write_level <= level; and a step that disables or
   enables a session changes no buffer and leaves the session as Dead or not
   Dead as it was. *)
C18_Step ==
  /\ (Len(calls') = Len(calls) + 1) =>
       LET id == Len(calls')
           c == calls'[id]
       IN  /\ (c.on # 0 /\ c.pass) =>
                 console' = console /\ bufs' = bufs /\ file' = file
           /\ (c.on # 0 /\ ~c.pass /\ ~c.died) =>
                 /\ (\E l \in console' : l.ev = "log" /\ l.k = id)
                      <=> (LevelRank(c.ll) <= LevelRank(c.level))
                 /\ (MsgLines(bufs'[c.on], id) # {})
                      <=> (LevelRank(c.wl) <= LevelRank(c.level))
  /\ \A s \in Sessions :
       ses'[s].pass # ses[s].pass =>
         /\ bufs' = bufs /\ console' = console /\ file' = file
         /\ ses'[s].died = ses[s].died

C18_DisabledIsSilent == [][C18_Step]_vars

\* a session was disabled, logged on, enabled and logged on again: the first
\* message is nowhere, the second is printed and in the buffer
C18_Witness ==
  \E s \in Sessions, i, j \in DOMAIN calls :
    /\ i < j /\ calls[i].on = s /\ calls[j].on = s
    /\ calls[i].pass /\ ~calls[j].pass /\ ~calls[j].died
    /\ ~PrintedCall(i) /\ MsgLines(bufs[s], i) = {}
    /\ PrintedCall(j) /\ MsgLines(bufs[s], j) # {}
    /\ ~ses[s].died

(* C19 (as claimed): a step writes to the file only when it is a log call on a
   Logger or the completion of a root session; the completion of a root
   session that does not panic writes one message, the report of that session.
   So nothing of a session tree is in the file before its root completes. *)
C19_Step ==
  /\ file' # file =>
       \/ Len(calls') = Len(calls) + 1 /\ calls'[Len(calls')].on = 0
       \/ \E s \in Sessions : Completes(s) /\ ses[s].sire = 0
  /\ \A s \in Sessions :
       (Completes(s) /\ ses[s].sire = 0 /\ panicked' = "") =>
         OneWrite /\ file'[Len(file')] = reports'[s]

C19_TreeWrittenAtRootEnd == [][C19_Step]_vars

(* C21 (as claimed): when set_directory(d) returns, directory d exists. *)
C21_Step ==
  \A name \in RegistryNames, directory \in DirectoryInputs :
    SetDirectory(name, directory) => directory \in Created'

C21_DirectoryMadeEagerly == [][C21_Step]_vars

\* this step is a call of Loggable::fatal
FatalCalled ==
  \/ \E s \in 1..MaxSessions : SessionFatal(s)
  \/ \E name \in LoggerNames : LoggerFatal(name)

\* the log calls made at Level::Fatal on session s
FatalOn(s) == {id \in DOMAIN calls : calls[id].on = s /\ calls[id].level = "Fatal"}

(* C22 (as claimed): a call of fatal logs at Level::Fatal and then panics; on
   a Logger the message is printed iff log_level <= Fatal and written iff
   write_level <= Fatal; on a session it is in the session's buffer after the
   call, and in the report the session renders when the unwinding drops it. *)
C22_Step_Claimed ==
  /\ FatalCalled =>
       LET id == Len(calls')
           c == calls'[id]
       IN  /\ Len(calls') = Len(calls) + 1 /\ c.level = "Fatal"
           /\ panicked' # ""
           /\ c.on # 0 => MsgLines(bufs'[c.on], id) # {}
  /\ \A s \in Sessions :
       Completes(s) => \A id \in FatalOn(s) : MsgLines(reports'[s], id) # {}

C22_FatalLogsThenPanics == [][C22_Step_Claimed]_vars

(* C22 (amended): a call of fatal logs at Level::Fatal and then panics.  On a
   Logger the message is printed (log_level <= Fatal) and written to the file
   (write_level <= Fatal).  On a session that is not Disabled the message is
   printed and is in the session's buffer after the call, and in the report
   the session renders when the unwinding drops it; on a Disabled session the
   call changes neither the console nor the buffer, and panics. *)
C22_Step ==
  /\ FatalCalled =>
       LET id == Len(calls')
           c == calls'[id]
       IN  /\ Len(calls') = Len(calls) + 1 /\ c.level = "Fatal"
           /\ panicked' = "Loggable::fatal"
           /\ c.on = 0 =>
                 /\ \E l \in console' \ console : l.ev = "log" /\ l.k = id
                 /\ OneWrite /\ MsgLines(file'[Len(file')], id) = {1}
           /\ (c.on # 0 /\ ~c.pass) =>
                 /\ \E l \in console' \ console : l.ev = "log" /\ l.k = id
                 /\ HasMsg(bufs'[c.on][Len(bufs'[c.on])], id)
                 /\ file' = file
           /\ (c.on # 0 /\ c.pass) =>
                 console' = console /\ bufs' = bufs /\ file' = file
  /\ \A s \in Sessions :
       Completes(s) =>
         \A id \in FatalOn(s) : ~calls[id].pass => MsgLines(reports'[s], id) # {}

C22_FatalRoutedThenPanics == [][C22_Step]_vars

\* fatal was called on an Active root session, the unwinding has dropped the
\* session, and its report, with the message in it, is in the file
C22_Witness ==
  \E s \in Sessions, id \in DOMAIN calls :
    /\ id \in FatalOn(s) /\ ~calls[id].pass
    /\ panicked = "Loggable::fatal"
    /\ ses[s].sire = 0 /\ ses[s].died
    /\ file = <<reports[s]>> /\ MsgLines(reports[s], id) # {}

(* C23 (as claimed): when the completion of a session takes the single-line
   path, the last line of its buffer is its SessionEnd marker, and the
   completion does not panic. *)
C23_Step ==
  \A s \in Sessions :
    (Completes(s) /\ ~TakesBox(ses[s].ease, bufs'[s])) =>
      /\ LastTok(Last(bufs'[s])).g = "Session end"
      /\ panicked' = panicked

C23_CollapsedLineIsEndMarker == [][C23_Step]_vars

\* every session made so far has completed, and no thread has panicked
AllCompleted == panicked = "" /\ \A s \in Sessions : ses[s].died

(* C26 (as claimed): once all sessions have completed, every message that was
   buffered by a session (logged while it was Active, at or above the write
   level) is on a line of some message written to the file, whatever the
   order in which the sessions were dropped. *)
C26_EveryReportReachesFile ==
  AllCompleted =>
    \A id \in DOMAIN calls :
      (calls[id].on # 0 /\ ActiveCallOn(id, calls[id].on) /\ AtWriteLevel(id)) =>
        \E k \in DOMAIN file : MsgLines(file[k], id) # {}

(* C27 (as claimed): the SessionStart line printed when a session is made
   names the new session, a root session and a nested one alike, as the
   SessionEnd line of that session does. *)
C27_StartNamesOwnSession ==
  \A c \in console :
    c.ev \in {"start", "end"} =>
      \E k \in DOMAIN c.line : c.line[k] = Tok("session", 0, ses[c.k].name)

\* the mutex thread t asks for in its next step, NoLock when it asks for none
NoLock == <<"", 0>>
Wants(t) ==
  LET r == run[t]
  IN  CASE r.at \in {"push", "end"} -> MsgsLock(r.s)
        [] r.at = "dump" -> IF ses[r.s].died THEN NoLock ELSE MsgsLock(r.s)
        [] r.at = "sire" -> MsgsLock(ses[r.s].sire)
        [] r.at = "new" -> LOGGERS_LOCK
        [] r.at = "get_file" -> GetFileOrder[1]
        [] r.at = "files" -> GetFileOrder[2]
        [] r.at = "write" -> FILE_LOCK
        [] OTHER -> NoLock

Holds(t) == {h \in Locks : held[h] = t}
Waits(t) == Wants(t) \in Locks /\ held[Wants(t)] # 0

\* some threads wait for one another in a circle
Deadlocked ==
  \E S \in SUBSET Threads :
    S # {} /\ \A t \in S : Wants(t) \in Locks /\ held[Wants(t)] \in S

\* the order: a session's buffer, its parent's buffer, the registry, the file
\* cache, the file handle
KindRank(l) ==
  CASE l[1] = "msgs" -> 1
    [] l[1] = "LOGGERS" -> 3
    [] l[1] = "FILES" -> 4
    [] l[1] = "File" -> 5

Before(h, l) ==
  IF h[1] = "msgs" /\ l[1] = "msgs" THEN l[2] = ses[h[2]].sire
  ELSE KindRank(h) < KindRank(l)

\* C24: with processors that do not call the library, no interleaving of the
\* operations of Logger and Session on several threads deadlocks: a thread takes a
\* mutex only when every mutex it holds is earlier in the order session buffer,
\* parent buffer, registry, file cache, file handle; a thread that waits for a
\* mutex holds none that is later; and no threads wait for one another in a circle.
C24_Step ==
  /\ \A t \in Threads, l \in Locks :
       (held'[l] = t /\ held[l] # t) => \A h \in Holds(t) : Before(h, l)
  /\ \A t \in Threads : (Waits(t) => \A h \in Holds(t) : Before(h, Wants(t)))'
  /\ ~(Deadlocked)'
C24_LocksTakenInOrder == [][C24_Step]_vars

\* a thread that holds a mutex waits for one that a thread holding two has
C24_Witness ==
  \E t, u \in Threads :
    /\ t # u
    /\ Cardinality(Holds(t)) >= 2
    /\ Holds(u) # {}
    /\ Wants(u) \in Holds(t)

\* session c has completed with a box that went to its parent
BoxToSire(c) == ses[c].sire # 0 /\ reports[c] # <<>> /\ IsBorder(reports[c][1])

\* the lines of block are in buf, one after the other and in their order
Contiguous(block, buf) ==
  \E k \in 0..(Len(buf) - Len(block)) : SubSeq(buf, k + 1, k + Len(block)) = block

\* C25: whatever other threads do meanwhile (complete a sibling, log on the
\* parent), the block a completed child rendered is in its parent's buffer whole:
\* its lines are contiguous and in order there, with no line of another child and
\* no message of the parent between them.
C25_BlockAppendedWhole ==
  \A c \in Sessions : BoxToSire(c) => Contiguous(reports[c], bufs[ses[c].sire])

\* a child's block is in the buffer of its parent while another thread is in the
\* middle of a log call on that parent
C25_Witness ==
  \E c \in Sessions, u \in Threads :
    /\ BoxToSire(c)
    /\ run[u].op = "Session::log" /\ run[u].at = "push"
    /\ run[u].s = ses[c].sire

====
